---- MODULE Spec2Model ----
(***************************************************************************)
(* Pricing and discount engine of ProductService                           *)
(* (src/src/services/api/productService.js).                               *)
(*                                                                         *)
(* Units.  Money is counted in cents (Rs. 1 = 100), so that the two        *)
(* decimals the code rounds to are exact integers.  Percentages that are   *)
(* stored (profitMargin) are counted in hundredths of a percent.  A price  *)
(* that the bulk update has computed but not yet rounded is counted in     *)
(* hundredths of a cent.  Arithmetic is exact; the binary rounding error   *)
(* of JavaScript numbers is not modelled.                                  *)
(*                                                                         *)
(* Objects.  A JavaScript object is a function from its property names to  *)
(* values; a property that is absent (undefined) is not in the DOMAIN.     *)
(***************************************************************************)
EXTENDS Integers, Sequences, FiniteSets, TLC

VARIABLES
    products,   \* this.products: the catalog, a sequence of product objects
    clock,      \* number of calls made so far; also the value of new Date()
    call,       \* the last call: operation name and arguments
    result,     \* what the last call returned or threw
    batch,      \* the bulkPartialUpdate call in flight: its updates, the index of
                \* the next one, successCount and errors
    page        \* the BulkPriceManager page: its products and bulkPreview state

vars == <<products, clock, call, result, batch, page>>

\* The latest clock value at which a new call may start.
MaxClock == 3

(***************************************************************************)
(* JavaScript helpers                                                      *)
(***************************************************************************)
\* obj.f !== undefined
Has(obj, f) == f \in DOMAIN obj

\* obj.f used as a condition, for a numeric property: defined and not 0
Truthy(obj, f) == Has(obj, f) /\ obj[f] # 0

\* obj.f used as a condition, for a string property: defined and not ""
NonEmpty(obj, f) == Has(obj, f) /\ obj[f] # ""

\* parseFloat(obj.f) || 0
Num(obj, f) == IF Has(obj, f) THEN obj[f] ELSE 0

\* obj.f || dflt for a string property
Str(obj, f, dflt) == IF Has(obj, f) THEN obj[f] ELSE dflt

\* { ...a, ...b }
Spread(a, b) ==
    [f \in DOMAIN a \cup DOMAIN b |-> IF f \in DOMAIN b THEN b[f] ELSE a[f]]

\* const { f1, f2, ...rest } = obj
Omit(obj, fs) == [f \in DOMAIN obj \ fs |-> obj[f]]

\* Math.round(n / d) for d > 0: the nearest integer, halves towards +infinity
Round(n, d) == (2 * n + d) \div (2 * d)

Min(a, b) == IF a < b THEN a ELSE b
Max(a, b) == IF a > b THEN a ELSE b
Abs(a) == IF a < 0 THEN -a ELSE a

\* Math.round(((price - purchasePrice) / purchasePrice) * 100 * 100) / 100,
\* in hundredths of a percent
Margin(price, purchasePrice) ==
    LET a == price - purchasePrice
        q == a \div purchasePrice
        r == a % purchasePrice
    IN  q * 10000 + Round(r * 10000, purchasePrice)

\* products.findIndex(p => p.id === id), 1-based; 0 when there is none
findIndex(prods, id) ==
    IF \E i \in 1..Len(prods) : prods[i].id = id
    THEN CHOOSE i \in 1..Len(prods) :
            prods[i].id = id /\ \A j \in 1..(i - 1) : prods[j].id # id
    ELSE 0

\* product.priceHistory, [] when the product has none
History(product) == IF Has(product, "priceHistory") THEN product.priceHistory ELSE <<>>

Ok(prods, value) == [products |-> prods, ok |-> TRUE, error |-> "", value |-> value]
Throw(prods, msg) == [products |-> prods, ok |-> FALSE, error |-> msg, value |-> <<>>]

(***************************************************************************)
(* The seed catalog (mockData/products.json) and the initial state         *)
(***************************************************************************)
productsData ==
    << [id |-> 1, name |-> "P1", category |-> "A", stock |-> 5, isActive |-> TRUE,
        price |-> 10000, purchasePrice |-> 8000, profitMargin |-> 2500,
        minSellingPrice |-> 8800, discountType |-> "Fixed Amount", discountValue |-> 0],
       [id |-> 2, name |-> "P2", category |-> "B", stock |-> 50, isActive |-> TRUE,
        price |-> 20000, purchasePrice |-> 0, profitMargin |-> 0,
        minSellingPrice |-> 0, discountType |-> "Percentage", discountValue |-> 10] >>

NoBatch == [pc |-> "idle", updates |-> <<>>, next |-> 1, successCount |-> 0, errors |-> <<>>]

\* useState([]) for products and for bulkPreview
NoPage == [products |-> <<>>, bulkPreview |-> <<>>]

Init ==
    /\ products = productsData
    /\ clock = 0
    /\ call = [op |-> "constructor"]
    /\ result = [ok |-> TRUE, error |-> "", value |-> <<>>]
    /\ batch = NoBatch
    /\ page = NoPage

(***************************************************************************)
(* getNextId, create                                                       *)
(***************************************************************************)
RECURSIVE maxIdFrom(_, _, _)
maxIdFrom(prods, i, max) ==
    IF i > Len(prods) THEN max
    ELSE maxIdFrom(prods, i + 1, IF prods[i].id > max THEN prods[i].id ELSE max)

getNextId(prods) == maxIdFrom(prods, 1, 0) + 1

createOutcome(prods, productData) ==
    IF ~NonEmpty(productData, "name") \/ ~Truthy(productData, "price")
          \/ ~Has(productData, "stock")
    THEN Throw(prods, "Name, price, and stock are required fields")
    ELSE IF productData.price <= 0
    THEN Throw(prods, "Price must be greater than 0")
    ELSE IF productData.stock < 0
    THEN Throw(prods, "Stock cannot be negative")
    ELSE
        LET newProduct ==
                Spread(Spread([id |-> getNextId(prods)], productData),
                       [price |-> productData.price,
                        purchasePrice |-> Num(productData, "purchasePrice"),
                        discountValue |-> Num(productData, "discountValue"),
                        minSellingPrice |-> Num(productData, "minSellingPrice"),
                        profitMargin |-> Num(productData, "profitMargin"),
                        stock |-> productData.stock,
                        minStock |-> IF Truthy(productData, "minStock")
                                     THEN productData.minStock ELSE 10,
                        isActive |-> IF Has(productData, "isActive")
                                     THEN productData.isActive ELSE TRUE])
        IN  Ok(Append(prods, newProduct), newProduct)

(***************************************************************************)
(* update                                                                  *)
(***************************************************************************)
\* trackedPatch that tracks every patch carrying a price, changed or not
trackedPatchAnyPrice(currentProduct, productData, now) ==
    IF Has(productData, "price")
    THEN Spread(productData,
                [previousPrice |-> currentProduct.price,
                 lastUpdated |-> now,
                 priceHistory |->
                    Append(History(currentProduct),
                           [date |-> now, oldPrice |-> currentProduct.price,
                            newPrice |-> productData.price, user |-> "Admin",
                            reason |-> "Manual update"])])
    ELSE productData

\* trackedPatch that snapshots previousPrice from the patch
trackedPatchWrongSnapshot(currentProduct, productData, now) ==
    IF Has(productData, "price") /\ productData.price # currentProduct.price
    THEN Spread(productData,
                [previousPrice |-> productData.price,
                 lastUpdated |-> now,
                 priceHistory |->
                    Append(History(currentProduct),
                           [date |-> now, oldPrice |-> currentProduct.price,
                            newPrice |-> productData.price, user |-> "Admin",
                            reason |-> "Manual update"])])
    ELSE productData

\* lines 108-125: productData once the price tracking has written to it
trackedPatch(currentProduct, productData, now) ==
    IF Has(productData, "price") /\ productData.price # currentProduct.price
    THEN Spread(productData,
                [previousPrice |-> currentProduct.price,
                 lastUpdated |-> now,
                 priceHistory |->
                    Append(History(currentProduct),
                           [date |-> now, oldPrice |-> currentProduct.price,
                            newPrice |-> productData.price, user |-> "Admin",
                            reason |-> "Manual update"])])
    ELSE productData

updateOutcome(prods, id, productData, now) ==
    LET index == findIndex(prods, id) IN
    IF index = 0
    THEN Throw(prods, "Product not found")
    ELSE IF Has(productData, "price") /\ productData.price <= 0
    THEN Throw(prods, "Price must be greater than 0")
    ELSE IF Has(productData, "stock") /\ productData.stock < 0
    THEN Throw(prods, "Stock cannot be negative")
    ELSE IF Has(productData, "price") /\ Has(productData, "purchasePrice")
            /\ productData.price <= productData.purchasePrice
    THEN Throw(prods, "Selling price must be greater than purchase price")
    ELSE
        LET currentProduct == prods[index]
            tracked == trackedPatch(currentProduct, productData, now)
            merged == Spread(Spread(currentProduct, tracked), [id |-> currentProduct.id])
            updatedProduct ==
                IF Truthy(merged, "price") /\ Truthy(merged, "purchasePrice")
                THEN Spread(merged,
                            [profitMargin |-> Margin(merged.price, merged.purchasePrice)])
                ELSE merged
        IN  Ok([prods EXCEPT ![index] = updatedProduct], updatedProduct)

(***************************************************************************)
(* delete, getById                                                         *)
(***************************************************************************)
deleteOutcome(prods, id) ==
    LET index == findIndex(prods, id) IN
    IF index = 0
    THEN Throw(prods, "Product not found")
    ELSE Ok(SubSeq(prods, 1, index - 1) \o SubSeq(prods, index + 1, Len(prods)), TRUE)

FinancialFields == {"purchasePrice", "minSellingPrice", "profitMargin"}

getByIdOutcome(prods, id, userRole) ==
    LET index == findIndex(prods, id) IN
    IF index = 0
    THEN Throw(prods, "Product not found")
    ELSE IF userRole # "admin"
    THEN Ok(prods, Omit(prods[index], FinancialFields))
    ELSE Ok(prods, prods[index])

(***************************************************************************)
(* validateBulkPriceUpdate, bulkUpdatePrices (the second definition of the *)
(* class, which replaces the first)                                        *)
(***************************************************************************)
\* a value that is a non-empty string parseFloat cannot read (isNaN)
NotANumber == -999999

validateBulkPriceUpdate(updateData) ==
    IF ~NonEmpty(updateData, "strategy")
    THEN [isValid |-> FALSE, error |-> "Update strategy is required"]
    ELSE IF updateData.strategy = "range"
    THEN IF ~Truthy(updateData, "minPrice") \/ ~Truthy(updateData, "maxPrice")
         THEN [isValid |-> FALSE,
               error |-> "Both minimum and maximum prices are required for range strategy"]
         ELSE IF updateData.minPrice >= updateData.maxPrice
         THEN [isValid |-> FALSE, error |-> "Minimum price must be less than maximum price"]
         ELSE [isValid |-> TRUE, error |-> ""]
    ELSE IF ~Truthy(updateData, "value")
    THEN [isValid |-> FALSE, error |-> "Update value is required"]
    ELSE IF updateData.value = NotANumber
    THEN [isValid |-> FALSE, error |-> "Update value must be a valid number"]
    ELSE [isValid |-> TRUE, error |-> ""]

\* One currency unit and the two price guards, in cents
Rs == 100
PriceFloor == 1 * Rs
PriceCeiling == 100000 * Rs

\* filterProducts without the stock filter
RECURSIVE filterProductsAnyStock(_, _, _)
filterProductsAnyStock(prods, i, updateData) ==
    IF i > Len(prods) THEN <<>>
    ELSE LET p == prods[i]
             inCategory == updateData.category = "all" \/ p.category = updateData.category
         IN  (IF inCategory THEN <<p>> ELSE <<>>)
                \o filterProductsAnyStock(prods, i + 1, updateData)

\* the products the request selects, in catalog order
RECURSIVE filterProducts(_, _, _)
filterProducts(prods, i, updateData) ==
    IF i > Len(prods) THEN <<>>
    ELSE LET p == prods[i]
             inCategory == updateData.category = "all" \/ p.category = updateData.category
             inStock == ~(Has(updateData, "applyToLowStock") /\ updateData.applyToLowStock)
                        \/ p.stock <= updateData.stockThreshold
         IN  (IF inCategory /\ inStock THEN <<p>> ELSE <<>>)
                \o filterProducts(prods, i + 1, updateData)

isPricing(updateData) == Str(updateData, "activeTab", "") = "pricing"
isCategoryDiscount(updateData) ==
    /\ Str(updateData, "activeTab", "") = "discounts"
    /\ Has(updateData, "categoryDiscount") /\ updateData.categoryDiscount

\* strategyPrice with the percentage strategy taking value percent of the price
strategyPricePercentOfPrice(updateData, originalPrice) ==
    IF ~isPricing(updateData) THEN originalPrice * 100
    ELSE IF updateData.strategy = "percentage"
    THEN originalPrice * Num(updateData, "value")
    ELSE IF updateData.strategy = "fixed"
    THEN (originalPrice + Num(updateData, "value")) * 100
    ELSE IF updateData.strategy = "range"
    THEN LET minPrice == Num(updateData, "minPrice")
             maxPrice == IF Truthy(updateData, "maxPrice")
                         THEN updateData.maxPrice ELSE originalPrice
         IN  Min(Max(originalPrice, minPrice), maxPrice) * 100
    ELSE originalPrice * 100

\* lines 1214-1230: the price the strategy computes, in hundredths of a cent
strategyPrice(updateData, originalPrice) ==
    IF ~isPricing(updateData) THEN originalPrice * 100
    ELSE IF updateData.strategy = "percentage"
    THEN originalPrice * (100 + Num(updateData, "value"))
    ELSE IF updateData.strategy = "fixed"
    THEN (originalPrice + Num(updateData, "value")) * 100
    ELSE IF updateData.strategy = "range"
    THEN LET minPrice == Num(updateData, "minPrice")
             maxPrice == IF Truthy(updateData, "maxPrice")
                         THEN updateData.maxPrice ELSE originalPrice
         IN  Min(Max(originalPrice, minPrice), maxPrice) * 100
    ELSE originalPrice * 100

\* shouldUpdate with the skip policy treated as override
shouldUpdateSkipOverrides(updateData, product) ==
    IF ~(isCategoryDiscount(updateData) /\ Num(product, "discountValue") > 0)
    THEN TRUE
    ELSE LET policy == Str(updateData, "conflictResolution", "") IN
         IF policy = "merge" /\ Str(updateData, "discountType", "") = "percentage"
         THEN LET newDiscountAmount == product.price * Num(updateData, "discountValue")
                  existingDiscountAmount ==
                      IF Str(product, "discountType", "") = "Percentage"
                      THEN product.price * product.discountValue
                      ELSE product.discountValue * 100
              IN  ~(newDiscountAmount <= existingDiscountAmount)
         ELSE TRUE

\* lines 1237-1259: FALSE when the conflict policy keeps the existing discount
shouldUpdate(updateData, product) ==
    IF ~(isCategoryDiscount(updateData) /\ Num(product, "discountValue") > 0)
    THEN TRUE
    ELSE LET policy == Str(updateData, "conflictResolution", "") IN
         IF policy = "skip" THEN FALSE
         ELSE IF policy = "merge" /\ Str(updateData, "discountType", "") = "percentage"
         THEN LET newDiscountAmount == product.price * Num(updateData, "discountValue")
                  existingDiscountAmount ==
                      IF Str(product, "discountType", "") = "Percentage"
                      THEN product.price * product.discountValue
                      ELSE product.discountValue * 100
              IN  ~(newDiscountAmount <= existingDiscountAmount)
         ELSE TRUE

isSkipped(updateData, product) ==
    /\ isCategoryDiscount(updateData) /\ Num(product, "discountValue") > 0
    /\ Str(updateData, "conflictResolution", "") = "skip"

\* lines 1261-1268: the discounted price, in hundredths of a cent
discountedPrice(updateData, product, price) ==
    IF isCategoryDiscount(updateData) /\ shouldUpdate(updateData, product)
          /\ Num(updateData, "discountValue") > 0
    THEN IF Str(updateData, "discountType", "") = "percentage"
         THEN product.price * (100 - updateData.discountValue)
         ELSE (product.price - updateData.discountValue) * 100
    ELSE price

\* lines 1272-1277: the request's own minPrice / maxPrice
requestGuard(updateData, price) ==
    LET low == IF Truthy(updateData, "minPrice") /\ price < updateData.minPrice * 100
               THEN updateData.minPrice * 100 ELSE price
    IN  IF Truthy(updateData, "maxPrice") /\ low > updateData.maxPrice * 100
        THEN updateData.maxPrice * 100 ELSE low

\* line 1280: Math.max(1, Math.min(newPrice, 100000))
rangeGuard(price) == Max(PriceFloor * 100, Min(price, PriceCeiling * 100))

\* newPriceOf with the request's guards applied after the range guard
newPriceOfRequestGuardLast(updateData, product) ==
    requestGuard(updateData, rangeGuard(
        discountedPrice(updateData, product, strategyPrice(updateData, product.price))))

\* the price of the loop body at line 1282, in hundredths of a cent
newPriceOf(updateData, product) ==
    rangeGuard(requestGuard(updateData,
        discountedPrice(updateData, product, strategyPrice(updateData, product.price))))

\* commits with a difference of exactly 0.01 written back
commitsAtOneCent(updateData, product) ==
    /\ shouldUpdate(updateData, product)
    /\ Abs(newPriceOf(updateData, product) - product.price * 100) >= 1 * 100

\* line 1283
commits(updateData, product) ==
    /\ shouldUpdate(updateData, product)
    /\ Abs(newPriceOf(updateData, product) - product.price * 100) > 1 * 100

\* lines 1286-1298: the record written back over the stored one
bulkUpdated(stored, updateData, product) ==
    LET priced == Spread(stored,
                         [previousPrice |-> product.price,
                          price |-> Round(newPriceOf(updateData, product), 100)])
    IN  IF isCategoryDiscount(updateData)
        THEN Spread(priced,
                    [discountType |-> Str(updateData, "discountType", ""),
                     discountValue |-> Num(updateData, "discountValue"),
                     discountStartDate |-> Num(updateData, "discountStartDate"),
                     discountEndDate |-> Num(updateData, "discountEndDate")])
        ELSE priced

\* the loop of lines 1208-1304 from the k-th filtered product on
RECURSIVE bulkLoop(_, _, _, _)
bulkLoop(acc, filtered, k, updateData) ==
    IF k > Len(filtered) THEN acc
    ELSE LET product == filtered[k]
             productIndex == findIndex(acc.products, product.id)
             conflicts == IF isSkipped(updateData, product)
                          THEN Append(acc.conflictProducts, product)
                          ELSE acc.conflictProducts
             next ==
                IF commits(updateData, product) /\ productIndex # 0
                THEN [products |->
                        [acc.products EXCEPT ![productIndex] =
                            bulkUpdated(acc.products[productIndex], updateData, product)],
                      updatedCount |-> acc.updatedCount + 1,
                      conflictProducts |-> conflicts]
                ELSE [acc EXCEPT !.conflictProducts = conflicts]
         IN  bulkLoop(next, filtered, k + 1, updateData)

\* bulkUpdatePrices that validates the request after the loop
bulkUpdatePricesValidatesLate(prods, updateData) ==
    LET validation == validateBulkPriceUpdate(updateData)
        filteredProducts == filterProducts(prods, 1, updateData)
        done == bulkLoop([products |-> prods, updatedCount |-> 0,
                          conflictProducts |-> <<>>],
                         filteredProducts, 1, updateData)
    IN  IF ~validation.isValid
        THEN Throw(done.products, validation.error)
        ELSE Ok(done.products,
                [updatedCount |-> done.updatedCount,
                 totalFiltered |-> Len(filteredProducts),
                 conflictCount |-> Len(done.conflictProducts),
                 strategy |-> updateData.strategy,
                 conflictProducts |->
                    SubSeq(done.conflictProducts, 1, Min(5, Len(done.conflictProducts)))])

bulkUpdatePricesOutcome(prods, updateData) ==
    LET validation == validateBulkPriceUpdate(updateData) IN
    IF ~validation.isValid
    THEN Throw(prods, validation.error)
    ELSE LET filteredProducts == filterProducts(prods, 1, updateData)
             done == bulkLoop([products |-> prods, updatedCount |-> 0,
                               conflictProducts |-> <<>>],
                              filteredProducts, 1, updateData)
         IN  Ok(done.products,
                [updatedCount |-> done.updatedCount,
                 totalFiltered |-> Len(filteredProducts),
                 conflictCount |-> Len(done.conflictProducts),
                 strategy |-> updateData.strategy,
                 conflictProducts |->
                    SubSeq(done.conflictProducts, 1, Min(5, Len(done.conflictProducts)))])

(***************************************************************************)
(* getPriceHistory                                                         *)
(***************************************************************************)
\* entries.sort((a, b) => new Date(b.date) - new Date(a.date)): most recent first,
\* entries of one date keeping their order
RECURSIVE insertByDate(_, _)
insertByDate(sorted, e) ==
    IF sorted = <<>> THEN <<e>>
    ELSE IF Head(sorted).date >= e.date
    THEN <<Head(sorted)>> \o insertByDate(Tail(sorted), e)
    ELSE <<e>> \o sorted

RECURSIVE sortByDateDesc(_)
sortByDateDesc(entries) ==
    IF entries = <<>> THEN <<>>
    ELSE insertByDate(sortByDateDesc(SubSeq(entries, 1, Len(entries) - 1)),
                      entries[Len(entries)])

\* lines 1387-1409; a mock date is an offset in days from now, and the mock
\* oldPrice price * 0.9 is the exact fraction <<price * 9, 10>>
mockHistory(product) ==
    (IF Truthy(product, "previousPrice") /\ product.previousPrice # product.price
     THEN << [date |-> -1, oldPrice |-> product.previousPrice,
              newPrice |-> product.price, user |-> "Admin",
              reason |-> "Price adjustment"] >>
     ELSE <<>>)
    \o
    (IF product.price > 100 * Rs
     THEN << [date |-> -7, oldPrice |-> <<product.price * 9, 10>>,
              newPrice |-> IF Truthy(product, "previousPrice")
                           THEN product.previousPrice ELSE product.price,
              user |-> "System", reason |-> "Seasonal adjustment"] >>
     ELSE <<>>)

getPriceHistoryOutcome(prods, productId) ==
    LET index == findIndex(prods, productId) IN
    IF index = 0
    THEN Throw(prods, "Product not found")
    ELSE IF Len(History(prods[index])) > 0
    THEN LET sorted == sortByDateDesc(prods[index].priceHistory)
         IN  Ok([prods EXCEPT ![index] = Spread(@, [priceHistory |-> sorted])], sorted)
    ELSE Ok(prods, mockHistory(prods[index]))

(***************************************************************************)
(* bulkPartialUpdate: one entry of the loop                                *)
(***************************************************************************)
\* lines 1422-1431
entryPatch(entry) ==
    Spread(IF Has(entry, "basePrice") THEN [price |-> entry.basePrice] ELSE <<>>,
           IF Has(entry, "costPrice") THEN [purchasePrice |-> entry.costPrice] ELSE <<>>)

\* lines 1420-1449; the outcome is that of the entry, value being unused
entryOutcome(prods, entry, now) ==
    LET updateData == entryPatch(entry) IN
    IF Has(updateData, "price") /\ updateData.price <= 0
    THEN Throw(prods, "Base price must be greater than 0")
    ELSE IF Has(updateData, "purchasePrice") /\ Has(updateData, "price")
            /\ updateData.price <= updateData.purchasePrice
    THEN Throw(prods, "Base price must be greater than cost price")
    ELSE updateOutcome(prods, entry.productId, updateData, now)

\* afterEntry that leaves the loop at the first failing entry
afterEntryAborts(b, entry, out) ==
    [b EXCEPT
        !.next = IF out.ok THEN @ + 1 ELSE Len(b.updates) + 1,
        !.successCount = IF out.ok THEN @ + 1 ELSE @,
        !.errors = IF out.ok THEN @
                   ELSE Append(@, [productId |-> entry.productId, error |-> out.error])]

\* lines 1419, 1436, 1441, 1445, 1448: the loop's state after an entry
afterEntry(b, entry, out) ==
    [b EXCEPT
        !.next = @ + 1,
        !.successCount = IF out.ok THEN @ + 1 ELSE @,
        !.errors = IF out.ok THEN @
                   ELSE Append(@, [productId |-> entry.productId, error |-> out.error])]

(***************************************************************************)
(* Inputs                                                                  *)
(***************************************************************************)
Ids == {1, 2, 3}
Roles == {"admin", "customer"}

Patches ==
    { <<>>,
      [price |-> 12000],
      [price |-> 10000],
      [price |-> 5000],
      [price |-> -500],
      [price |-> 50],
      [price |-> 10000001],
      [purchasePrice |-> 15000],
      [purchasePrice |-> 0],
      [price |-> 12000, purchasePrice |-> 8000],
      [price |-> 5000, purchasePrice |-> 8000],
      [stock |-> -1] }

NewProducts ==
    { [name |-> "N", category |-> "A", price |-> 10000, purchasePrice |-> 8000, stock |-> 5],
      [name |-> "N", category |-> "B", price |-> 50, stock |-> 1],
      [name |-> "N", category |-> "A", price |-> 5000, purchasePrice |-> 8000, stock |-> 1],
      [name |-> "N", category |-> "A", price |-> -500, stock |-> 1],
      [name |-> "N", category |-> "A", price |-> 5000, stock |-> -1],
      [category |-> "A", price |-> 5000, stock |-> 1] }

BulkRequests ==
    { [activeTab |-> "pricing", strategy |-> "percentage", value |-> 10, category |-> "all"],
      [activeTab |-> "pricing", strategy |-> "percentage", value |-> -50, category |-> "all"],
      [activeTab |-> "pricing", strategy |-> "percentage", value |-> -100, category |-> "all",
       minPrice |-> 50],
      [activeTab |-> "pricing", strategy |-> "fixed", value |-> 10000000, category |-> "all",
       maxPrice |-> 10000001],
      [activeTab |-> "pricing", strategy |-> "fixed", value |-> 1, category |-> "A",
       maxPrice |-> 50],
      [activeTab |-> "pricing", strategy |-> "range", minPrice |-> 5000, maxPrice |-> 8000,
       category |-> "all"],
      [activeTab |-> "pricing", strategy |-> "range", minPrice |-> 8000, maxPrice |-> 5000,
       category |-> "all"],
      [activeTab |-> "pricing", strategy |-> "percentage", category |-> "all"],
      [activeTab |-> "discounts", categoryDiscount |-> TRUE, strategy |-> "percentage",
       value |-> 1, category |-> "all", discountType |-> "percentage",
       discountValue |-> 20, conflictResolution |-> "override"] }

Batches ==
    { <<>>,
      << [productId |-> 1, basePrice |-> 12000] >>,
      << [productId |-> 1, basePrice |-> -500], [productId |-> 2, basePrice |-> 12000] >>,
      << [productId |-> 3, basePrice |-> 12000], [productId |-> 1, costPrice |-> 15000] >>,
      << [productId |-> 2, basePrice |-> 5000, costPrice |-> 8000],
         [productId |-> 1, basePrice |-> 30000, costPrice |-> 8000] >>,
      << [productId |-> 1, basePrice |-> 12000], [productId |-> 1, basePrice |-> 0],
         [productId |-> 1, basePrice |-> 15000] >> }

(***************************************************************************)
(* Actions: one per service call.  A call is accepted when no batch is in  *)
(* flight (the caller awaits each call), and runs to completion.           *)
(***************************************************************************)
Idle == batch.pc = "idle" /\ clock < MaxClock

Return(c, out) ==
    /\ products' = out.products
    /\ clock' = clock + 1
    /\ call' = c
    /\ result' = [ok |-> out.ok, error |-> out.error, value |-> out.value]
    /\ UNCHANGED <<batch, page>>

create ==
    /\ Idle
    /\ \E productData \in NewProducts :
          Return([op |-> "create", data |-> productData],
                 createOutcome(products, productData))

update ==
    /\ Idle
    /\ \E id \in Ids, productData \in Patches :
          Return([op |-> "update", id |-> id, data |-> productData],
                 updateOutcome(products, id, productData, clock + 1))

delete ==
    /\ Idle
    /\ \E id \in Ids :
          Return([op |-> "delete", id |-> id], deleteOutcome(products, id))

getById ==
    /\ Idle
    /\ \E id \in Ids, userRole \in Roles :
          Return([op |-> "getById", id |-> id, role |-> userRole],
                 getByIdOutcome(products, id, userRole))

getPriceHistory ==
    /\ Idle
    /\ \E id \in Ids :
          Return([op |-> "getPriceHistory", id |-> id],
                 getPriceHistoryOutcome(products, id))

bulkUpdatePrices ==
    /\ Idle
    /\ \E updateData \in BulkRequests :
          Return([op |-> "bulkUpdatePrices", data |-> updateData],
                 bulkUpdatePricesOutcome(products, updateData))

\* line 1413-1417: the call starts
bulkPartialUpdate ==
    /\ Idle
    /\ \E updates \in Batches :
          /\ batch' = [pc |-> "loop", updates |-> updates, next |-> 1,
                       successCount |-> 0, errors |-> <<>>]
          /\ call' = [op |-> "bulkPartialUpdate", data |-> updates]
    /\ clock' = clock + 1
    /\ result' = [ok |-> TRUE, error |-> "", value |-> <<>>]
    /\ UNCHANGED <<products, page>>

\* lines 1419-1450: one turn of the loop
bulkPartialEntry ==
    /\ batch.pc = "loop"
    /\ batch.next <= Len(batch.updates)
    /\ LET entry == batch.updates[batch.next]
           out == entryOutcome(products, entry, clock + 1)
       IN  /\ products' = out.products
           /\ batch' = afterEntry(batch, entry, out)
           /\ call' = [op |-> "bulkPartialUpdate.entry", data |-> entry]
           /\ result' = [ok |-> out.ok, error |-> out.error, value |-> <<>>]
    /\ clock' = clock + 1
    /\ UNCHANGED page

\* lines 1452-1456
bulkPartialReturn ==
    /\ batch.pc = "loop"
    /\ batch.next > Len(batch.updates)
    /\ batch' = NoBatch
    /\ call' = [op |-> "bulkPartialUpdate.return", data |-> batch.updates]
    /\ result' = [ok |-> TRUE, error |-> "",
                  value |-> [successCount |-> batch.successCount,
                             totalUpdates |-> Len(batch.updates),
                             errors |-> batch.errors]]
    /\ UNCHANGED <<products, clock, page>>

Next ==
    \/ create
    \/ update
    \/ delete
    \/ getById
    \/ getPriceHistory
    \/ bulkUpdatePrices
    \/ bulkPartialUpdate
    \/ bulkPartialEntry
    \/ bulkPartialReturn

Spec == Init /\ [][Next]_vars

(***************************************************************************)
(* Properties                                                              *)
(***************************************************************************)
Positions == 1..Len(products)

\* C1: every product in the catalog whose purchasePrice is > 0 has
\* price > purchasePrice, after any sequence of create, update,
\* bulkUpdatePrices and bulkPartialUpdate calls.
C1_PriceAbovePurchasePrice ==
    \A i \in Positions :
        Num(products[i], "purchasePrice") > 0
            => products[i].price > products[i].purchasePrice

\* C2: every price change that bulkUpdatePrices commits appends one entry
\* (old price, new price, reason "Bulk update") to the product's priceHistory.
C2_BulkUpdateAppendsHistory ==
    [][call'.op = "bulkUpdatePrices" =>
          \A i \in Positions :
              products'[i].price # products[i].price =>
                  LET before == History(products[i])
                      after == History(products'[i])
                  IN  /\ Len(after) = Len(before) + 1
                      /\ SubSeq(after, 1, Len(before)) = before
                      /\ after[Len(after)].oldPrice = products[i].price
                      /\ after[Len(after)].newPrice = products'[i].price
                      /\ after[Len(after)].reason = "Bulk update"]_vars

\* C3: across update, bulkUpdatePrices and bulkPartialUpdate the length of
\* every product's recorded price history never decreases, and an update
\* whose patch.price equals the current price appends no entry.
C3_HistoryNeverShrinks ==
    [][call'.op \in {"update", "bulkUpdatePrices", "bulkPartialUpdate.entry"} =>
          /\ Len(products') = Len(products)
          /\ \A i \in Positions :
                Len(History(products'[i])) >= Len(History(products[i]))
          /\ \A i \in Positions :
                (/\ call'.op = "update"
                 /\ i = findIndex(products, call'.id)
                 /\ Has(call'.data, "price")
                 /\ call'.data.price = products[i].price)
                    => History(products'[i]) = History(products[i])]_vars

\* an accepted update that carried the current price, on a product with history
C3_Witness ==
    /\ call.op = "update" /\ result.ok
    /\ Has(call.data, "price")
    /\ LET h == History(result.value)
       IN  h # <<>> /\ \A k \in 1..Len(h) : h[k].date < clock

\* C4: after every mutation each product's stored profitMargin is
\* ((price - purchasePrice) / purchasePrice) * 100 rounded to 2 decimals
\* when purchasePrice > 0, and 0 when purchasePrice is 0.
C4_StoredMarginIsComputed ==
    \A i \in Positions :
        Num(products[i], "profitMargin") =
            IF Num(products[i], "purchasePrice") > 0
            THEN Margin(products[i].price, products[i].purchasePrice)
            ELSE 0

\* C5: after any mutation every product's price is > 0 and within
\* [1, 100000].
C5_PriceWithinBounds ==
    \A i \in Positions :
        /\ products[i].price > 0
        /\ products[i].price >= PriceFloor
        /\ products[i].price <= PriceCeiling

\* C6: every price that bulkUpdatePrices writes to a product is within
\* [1, 100000], whatever the strategy, value, discount and request-level
\* minPrice / maxPrice.
C6_BulkPriceClamped ==
    [][call'.op = "bulkUpdatePrices" =>
          \A i \in Positions :
              products'[i] # products[i] =>
                  /\ products'[i].price >= PriceFloor
                  /\ products'[i].price <= PriceCeiling]_vars

\* a bulk update whose own maxPrice lies outside the guard wrote the guard value
C6_Witness ==
    /\ call.op = "bulkUpdatePrices" /\ result.ok
    /\ result.value.updatedCount > 0
    /\ \/ /\ Truthy(call.data, "maxPrice") /\ call.data.maxPrice > PriceCeiling
          /\ \E i \in Positions : products[i].price = PriceCeiling
       \/ /\ Truthy(call.data, "maxPrice") /\ call.data.maxPrice < PriceFloor
          /\ \E i \in Positions : products[i].price = PriceFloor

\* C7: in every reachable catalog state update(id, {}) on an existing id
\* returns the record as stored before the call, leaves it unchanged and
\* appends no history entry.
C7_EmptyUpdateIsNoOp ==
    [][(call'.op = "update" /\ call'.data = <<>> /\ findIndex(products, call'.id) # 0) =>
          /\ result'.ok
          /\ result'.value = products[findIndex(products, call'.id)]
          /\ products' = products]_vars

\* C8: an accepted update whose patch.price differs from the current price p
\* stores price = patch.price and previousPrice = p and appends exactly one
\* history entry, with oldPrice = p and newPrice = patch.price.
C8_PriceChangeIsTracked ==
    [][(/\ call'.op = "update" /\ result'.ok
        /\ Has(call'.data, "price")
        /\ call'.data.price # products[findIndex(products, call'.id)].price) =>
          LET i == findIndex(products, call'.id)
              p == products[i].price
              before == History(products[i])
              after == History(products'[i])
          IN  /\ products'[i].price = call'.data.price
              /\ Has(products'[i], "previousPrice")
              /\ products'[i].previousPrice = p
              /\ Len(after) = Len(before) + 1
              /\ SubSeq(after, 1, Len(before)) = before
              /\ after[Len(after)].oldPrice = p
              /\ after[Len(after)].newPrice = call'.data.price]_vars

\* a second tracked price change of one product
C8_Witness ==
    /\ call.op = "update" /\ result.ok
    /\ LET h == History(result.value)
       IN  /\ Len(h) >= 2
           /\ h[Len(h)].date = clock
           /\ h[Len(h)].oldPrice = h[Len(h) - 1].newPrice
           /\ result.value.previousPrice = h[Len(h)].oldPrice

\* C9: a call that ends in an error leaves the whole catalog unchanged:
\* update, delete, getById, getPriceHistory on an unknown id, create or
\* update rejected by field validation, bulkUpdatePrices rejected by request
\* validation.
C9_ErrorLeavesCatalogUnchanged ==
    [][(/\ call'.op \in {"create", "update", "delete", "getById",
                         "getPriceHistory", "bulkUpdatePrices"}
        /\ ~result'.ok) => products' = products]_vars

\* a bulk request was rejected although it selects products it would change
C9_Witness ==
    /\ call.op = "bulkUpdatePrices" /\ ~result.ok
    /\ call.data.strategy = "range"
    /\ \E i \in Positions : products[i].price > call.data.maxPrice

\* the three ways an entry of bulkPartialUpdate fails
entryFails(prods, entry) ==
    \/ Has(entry, "basePrice") /\ entry.basePrice <= 0
    \/ Has(entry, "basePrice") /\ Has(entry, "costPrice")
          /\ entry.basePrice <= entry.costPrice
    \/ findIndex(prods, entry.productId) = 0

\* C10: bulkPartialUpdate processes every entry whatever failed before: a
\* failing entry adds exactly one {productId, error} record and leaves the
\* catalog unchanged, a succeeding entry is applied and counted, and on
\* return successCount + errors.length = totalUpdates = number of entries.
C10_BatchIsolatesFailures ==
    [][/\ call'.op = "bulkPartialUpdate.entry" =>
            LET entry == call'.data
                i == findIndex(products, entry.productId)
            IN  /\ entry = batch.updates[batch.next]
                /\ batch'.next = batch.next + 1
                /\ entryFails(products, entry) =>
                      /\ products' = products
                      /\ batch'.successCount = batch.successCount
                      /\ Len(batch'.errors) = Len(batch.errors) + 1
                      /\ SubSeq(batch'.errors, 1, Len(batch.errors)) = batch.errors
                      /\ batch'.errors[Len(batch'.errors)].productId = entry.productId
                /\ ~entryFails(products, entry) =>
                      /\ batch'.successCount = batch.successCount + 1
                      /\ batch'.errors = batch.errors
                      /\ Has(entry, "basePrice") => products'[i].price = entry.basePrice
                      /\ Has(entry, "costPrice") =>
                            products'[i].purchasePrice = entry.costPrice
       /\ call'.op = "bulkPartialUpdate.return" =>
            /\ batch.next = Len(call'.data) + 1
            /\ result'.value.totalUpdates = Len(call'.data)
            /\ result'.value.successCount + Len(result'.value.errors)
                  = result'.value.totalUpdates]_vars

\* a batch whose first entry failed and whose second entry was applied
C10_Witness ==
    /\ call.op = "bulkPartialUpdate.return"
    /\ Len(call.data) = 2
    /\ Has(call.data[1], "basePrice") /\ call.data[1].basePrice <= 0
    /\ result.value.successCount = 1
    /\ Len(result.value.errors) = 1
    /\ result.value.errors[1].productId = call.data[1].productId
    /\ \E i \in Positions :
          /\ products[i].id = call.data[2].productId
          /\ products[i].price = call.data[2].basePrice

(***************************************************************************)
(* Concurrent callers.  bulkPartialUpdate awaits this.update for every     *)
(* entry (line 1444), and update awaits this.delay() before its body (line *)
(* 84): while the batch waits, the event loop runs the body of any other   *)
(* call whose delay has elapsed.  The bodies themselves are synchronous.   *)
(***************************************************************************)
InFlight == batch.pc = "loop" /\ clock < MaxClock

\* the body of an update invoked by another caller while a batch is in flight
updateDuringBatch ==
    /\ InFlight
    /\ \E id \in Ids, productData \in Patches :
          Return([op |-> "update", id |-> id, data |-> productData],
                 updateOutcome(products, id, productData, clock + 1))

\* the body of a delete invoked by another caller while a batch is in flight
deleteDuringBatch ==
    /\ InFlight
    /\ \E id \in Ids :
          Return([op |-> "delete", id |-> id], deleteOutcome(products, id))

NextConcurrent ==
    \/ bulkPartialUpdate
    \/ bulkPartialEntry
    \/ bulkPartialReturn
    \/ updateDuringBatch
    \/ deleteDuringBatch

SpecConcurrent == Init /\ [][NextConcurrent]_vars

\* C11: each mutating operation runs to completion before the next one takes
\* effect: no update or delete changes the catalog between two entries of a
\* running bulkPartialUpdate batch.
C11_NoWriteBetweenEntries ==
    [][(/\ batch.pc = "loop"
        /\ batch.next > 1
        /\ batch.next <= Len(batch.updates)
        /\ call'.op \in {"update", "delete"}) => products' = products]_vars

(***************************************************************************)
(* Identity: callers whose data carries an id property                     *)
(***************************************************************************)
IdentifiedProducts ==
    { [name |-> "N", category |-> "A", price |-> 5000, stock |-> 1],
      [id |-> 1, name |-> "N", category |-> "A", price |-> 5000, stock |-> 1],
      [id |-> 7, name |-> "N", category |-> "B", price |-> 5000, stock |-> 1] }

IdentifiedPatches ==
    { <<>>, [price |-> 12000], [id |-> 2], [id |-> 9, price |-> 12000] }

createIdentified ==
    /\ Idle
    /\ \E productData \in IdentifiedProducts :
          Return([op |-> "create", data |-> productData],
                 createOutcome(products, productData))

updateIdentified ==
    /\ Idle
    /\ \E id \in Ids, productData \in IdentifiedPatches :
          Return([op |-> "update", id |-> id, data |-> productData],
                 updateOutcome(products, id, productData, clock + 1))

NextIds ==
    \/ createIdentified
    \/ updateIdentified
    \/ delete
    \/ bulkUpdatePrices

SpecIds == Init /\ [][NextIds]_vars

\* max existing id + 1, or 1 for an empty catalog
ExpectedNewId(prods) ==
    IF prods = <<>> THEN 1
    ELSE LET ids == {prods[i].id : i \in 1..Len(prods)}
         IN  (CHOOSE m \in ids : \A n \in ids : n <= m) + 1

\* C12: product ids are unique and immutable: no two products in the
\* catalog share an id, no update changes a product's id (even with an id in
\* the patch), and create assigns max existing id + 1 (1 for an empty
\* catalog) whatever the supplied data carries.
C12_IdsUniqueAndImmutable ==
    [][/\ \A i, j \in 1..Len(products') :
              products'[i].id = products'[j].id => i = j
       /\ call'.op = "update" =>
              /\ Len(products') = Len(products)
              /\ \A i \in Positions : products'[i].id = products[i].id
       /\ (call'.op = "create" /\ result'.ok) =>
              /\ Len(products') = Len(products) + 1
              /\ products'[Len(products')].id = ExpectedNewId(products)]_vars

Valid == [isValid |-> TRUE]
Invalid(msg) == [isValid |-> FALSE, error |-> msg]

\* the price left after the discount, in hundredths of a cent
finalPrice(price, discountType, discountValue) ==
    IF discountType = "Percentage" THEN price * (100 - discountValue)
    ELSE (price - discountValue) * 100

validateProfitRulesFixedAbovePrice(productData) ==
    LET purchasePrice == Num(productData, "purchasePrice")
        price         == Num(productData, "price")
        discountValue == Num(productData, "discountValue")
        discountType  == IF NonEmpty(productData, "discountType")
                         THEN productData.discountType ELSE "Fixed Amount"
        final         == finalPrice(price, discountType, discountValue)
    IN  IF price < PriceFloor THEN Invalid("Price cannot be less than Rs. 1")
        ELSE IF price > PriceCeiling THEN Invalid("Price cannot exceed Rs. 100,000")
        ELSE IF purchasePrice > 0 /\ price <= purchasePrice
        THEN Invalid("Selling price must be greater than purchase price")
        ELSE IF discountValue > 0
        THEN IF discountType = "Percentage" /\ discountValue > 90
             THEN Invalid("Percentage discount cannot exceed 90%")
             ELSE IF discountType = "Fixed Amount" /\ discountValue > price
             THEN Invalid("Fixed discount cannot be equal to or greater than the product price")
             ELSE IF purchasePrice > 0 /\ final <= purchasePrice * 100
             THEN Invalid("Discounted price cannot be equal to or less than purchase price")
             ELSE IF purchasePrice > 0 /\ final < purchasePrice * 105
             THEN Invalid("Profit margin after discount should be at least 5% for sustainable business")
             ELSE Valid
        ELSE IF purchasePrice > 0 /\ price * 100 < purchasePrice * 105
        THEN Invalid("Profit margin should be at least 5% for sustainable business")
        ELSE Valid

\* margin = (finalPrice - purchasePrice) / purchasePrice * 100 < 5 is compared
\* exactly, as finalPrice * 100 < purchasePrice * 105
validateProfitRules(productData) ==
    LET purchasePrice == Num(productData, "purchasePrice")
        price         == Num(productData, "price")
        discountValue == Num(productData, "discountValue")
        discountType  == IF NonEmpty(productData, "discountType")
                         THEN productData.discountType ELSE "Fixed Amount"
        final         == finalPrice(price, discountType, discountValue)
    IN  IF price < PriceFloor THEN Invalid("Price cannot be less than Rs. 1")
        ELSE IF price > PriceCeiling THEN Invalid("Price cannot exceed Rs. 100,000")
        ELSE IF purchasePrice > 0 /\ price <= purchasePrice
        THEN Invalid("Selling price must be greater than purchase price")
        ELSE IF discountValue > 0
        THEN IF discountType = "Percentage" /\ discountValue > 90
             THEN Invalid("Percentage discount cannot exceed 90%")
             ELSE IF discountType = "Fixed Amount" /\ discountValue >= price
             THEN Invalid("Fixed discount cannot be equal to or greater than the product price")
             ELSE IF purchasePrice > 0 /\ final <= purchasePrice * 100
             THEN Invalid("Discounted price cannot be equal to or less than purchase price")
             ELSE IF purchasePrice > 0 /\ final < purchasePrice * 105
             THEN Invalid("Profit margin after discount should be at least 5% for sustainable business")
             ELSE Valid
        ELSE IF purchasePrice > 0 /\ price * 100 < purchasePrice * 105
        THEN Invalid("Profit margin should be at least 5% for sustainable business")
        ELSE Valid

\* candidate records: prices around both bounds, purchase prices absent, zero
\* and positive, discounts of both types around every threshold
RulePrices == {0, 50, 100, 5000, 10500, 12500, 10000000, 10000001}
RulePurchases == { <<>>, [purchasePrice |-> 0], [purchasePrice |-> 4800],
                   [purchasePrice |-> 10000] }
RuleDiscounts ==
    { <<>>, [discountValue |-> 0] }
    \cup { [discountType |-> "Percentage", discountValue |-> v] :
              v \in {16, 17, 20, 90, 91} }
    \cup { [discountType |-> "Fixed Amount", discountValue |-> v] :
              v \in {2000, 2100, 5000, 12500} }
    \cup { [discountValue |-> 2000], [discountValue |-> 5000] }

RuleInputs ==
    { Spread(Spread([price |-> price], pp), d) :
          price \in RulePrices, pp \in RulePurchases, d \in RuleDiscounts }

InitRules ==
    /\ products = productsData
    /\ clock = 0
    /\ call \in { [op |-> "input", data |-> d] : d \in RuleInputs }
    /\ result = [ok |-> TRUE, error |-> "", value |-> <<>>]
    /\ batch = NoBatch
    /\ page = NoPage

validateProfitRulesCall ==
    /\ call.op = "input"
    /\ Return([op |-> "validateProfitRules", data |-> call.data],
              Ok(products, validateProfitRules(call.data)))

NextRules == validateProfitRulesCall

SpecRules == InitRules /\ [][NextRules]_vars

\* the conditions the rule set lists, on a candidate record
MeetsProfitRules(d) ==
    LET price == Num(d, "price")
        pp    == Num(d, "purchasePrice")
        dv    == Num(d, "discountValue")
        pct   == Has(d, "discountType") /\ d.discountType = "Percentage"
        disc  == IF pct THEN price * (100 - dv) ELSE (price - dv) * 100
    IN  /\ 1 * Rs <= price
        /\ price <= 100000 * Rs
        /\ pp > 0 => price > pp
        /\ dv > 0 =>
              /\ pct => dv <= 90
              /\ ~pct => dv < price
              /\ pp > 0 => /\ disc > pp * 100
                           /\ disc - pp * 100 >= 5 * pp
        /\ dv = 0 => (pp > 0 => (price - pp) * 100 >= 5 * pp)

\* C14: validateProfitRules(data) returns isValid = true if and only if
\* 1 <= price <= 100000, price > purchasePrice when purchasePrice > 0, a
\* positive Percentage discount is at most 90 and a positive fixed discount is
\* below the price, the discounted price exceeds purchasePrice with a margin
\* of at least 5% when purchasePrice > 0, and without a discount the margin on
\* the raw price is at least 5% when purchasePrice > 0.
C14_ProfitRulesExact ==
    call.op = "validateProfitRules" =>
        (result.value.isValid <=> MeetsProfitRules(call.data))

C14_Witness ==
    /\ call.op = "validateProfitRules"
    /\ call.data = [price |-> 5000, purchasePrice |-> 4800]
    /\ ~result.value.isValid
    /\ result.value.error = "Profit margin should be at least 5% for sustainable business"

(***************************************************************************)
(* validateOfferConflicts                                                  *)
(*                                                                         *)
(* A date is the day number of its date string (new Date keeps the order   *)
(* of date strings); 0 or an absent property is a date that is not set.    *)
(* The candidate and the catalog entries are always objects.  The details  *)
(* text of a conflict is left out; a warning is a record of what its text  *)
(* says.                                                                   *)
(***************************************************************************)
\* excludeId = null: no product has this id
NullId == 0

hasWindow(p) == Truthy(p, "discountStartDate") /\ Truthy(p, "discountEndDate")

\* the filter of categoryProducts, without the test on the candidate's category
isComparedAnyCategory(p, category, excludeId) ==
    /\ p.id # excludeId
    /\ Num(p, "discountValue") > 0
    /\ hasWindow(p)

\* the filter of categoryProducts
isCompared(p, category, excludeId) ==
    /\ p.category = category
    /\ p.id # excludeId
    /\ Num(p, "discountValue") > 0
    /\ hasWindow(p)

datesOverlapHalfOpen(newStart, newEnd, existingStart, existingEnd) ==
    newStart <= existingEnd /\ newEnd > existingStart

datesOverlap(newStart, newEnd, existingStart, existingEnd) ==
    newStart <= existingEnd /\ newEnd >= existingStart

\* the conflicts pushed by the loop over categoryProducts, in catalog order
RECURSIVE overlapConflicts(_, _, _, _)
overlapConflicts(productData, allProducts, excludeId, i) ==
    IF i > Len(allProducts) THEN <<>>
    ELSE LET product == allProducts[i]
             hit == /\ isCompared(product, productData.category, excludeId)
                    /\ datesOverlap(productData.discountStartDate,
                                    productData.discountEndDate,
                                    product.discountStartDate,
                                    product.discountEndDate)
         IN  (IF hit THEN << [type |-> "overlapping_dates",
                              productId |-> product.id,
                              productName |-> product.name] >>
              ELSE <<>>)
                \o overlapConflicts(productData, allProducts, excludeId, i + 1)

\* samePriorityProducts.length
samePriorityCount(productData, allProducts, excludeId) ==
    LET priority == IF Truthy(productData, "discountPriority")
                    THEN productData.discountPriority ELSE 1
    IN  Cardinality({ i \in 1..Len(allProducts) :
                        /\ allProducts[i].category = productData.category
                        /\ allProducts[i].id # excludeId
                        /\ Has(allProducts[i], "discountPriority")
                        /\ allProducts[i].discountPriority = priority
                        /\ Num(allProducts[i], "discountValue") > 0 })

validateOfferConflicts(productData, allProducts, excludeId) ==
    LET price         == Num(productData, "price")
        discountValue == Num(productData, "discountValue")
        discountType  == IF NonEmpty(productData, "discountType")
                         THEN productData.discountType ELSE "Fixed Amount"
        purchasePrice == Num(productData, "purchasePrice")
        final         == finalPrice(price, discountType, discountValue)
        overlapping   == IF discountValue > 0 /\ hasWindow(productData)
                         THEN overlapConflicts(productData, allProducts, excludeId, 1)
                         ELSE <<>>
        excessive     == IF /\ discountValue > 0
                            /\ discountType = "Percentage" /\ discountValue > 90
                         THEN << [type |-> "excessive_discount"] >> ELSE <<>>
        invalid       == IF /\ discountValue > 0
                            /\ discountType = "Fixed Amount" /\ discountValue >= price
                         THEN << [type |-> "invalid_discount"] >> ELSE <<>>
        lowMargin     == IF /\ purchasePrice > 0 /\ discountValue > 0
                            /\ final < purchasePrice * 105
                         THEN << [type |-> "low_profit_margin"] >> ELSE <<>>
        veryLow       == IF discountValue > 0 /\ final < price * 10
                         THEN << [warning |-> "very_low_final_price"] >> ELSE <<>>
        count         == samePriorityCount(productData, allProducts, excludeId)
        samePriority  == IF count > 0
                         THEN << [warning |-> "same_priority", count |-> count,
                                  category |-> productData.category] >>
                         ELSE <<>>
        conflicts     == overlapping \o excessive \o invalid \o lowMargin
    IN  [isValid   |-> conflicts = <<>>,
         conflicts |-> conflicts,
         warnings  |-> veryLow \o samePriority,
         error     |-> IF conflicts = <<>> THEN "" ELSE "Offer conflicts detected"]

OfferWindows ==
    { <<>>,
      [discountStartDate |-> 1],
      [discountStartDate |-> 1, discountEndDate |-> 10],
      [discountStartDate |-> 5, discountEndDate |-> 15],
      [discountStartDate |-> 10, discountEndDate |-> 20],
      [discountStartDate |-> 11, discountEndDate |-> 20] }

OfferDiscounts ==
    { [discountValue |-> 0],
      [discountType |-> "Percentage", discountValue |-> 10],
      [discountType |-> "Percentage", discountValue |-> 95],
      [discountValue |-> 10000] }

Offer(id, category, discount, window, more) ==
    Spread(Spread(Spread([id |-> id, name |-> "P", category |-> category,
                          price |-> 10000], discount), window), more)

OfferCandidates ==
    { Offer(1, category, discount, window, more) :
          category \in {"A", "B"}, discount \in OfferDiscounts,
          window \in OfferWindows,
          more \in { <<>>, [purchasePrice |-> 8000], [discountPriority |-> 2] } }

OfferCatalogProducts(ids) ==
    { Offer(id, category, discount, window, more) :
          id \in ids, category \in {"A", "B"},
          discount \in { [discountValue |-> 0],
                         [discountType |-> "Percentage", discountValue |-> 10] },
          window \in OfferWindows,
          more \in { <<>>, [discountPriority |-> 1] } }

OfferCatalogs ==
    { <<>> }
    \cup { <<p>> : p \in OfferCatalogProducts({1, 2}) }
    \cup { <<p, q>> : p \in { Offer(2, "A", [discountType |-> "Percentage",
                                             discountValue |-> 10], window, <<>>) :
                                  window \in OfferWindows },
                      q \in { Offer(3, category, [discountType |-> "Percentage",
                                                  discountValue |-> 10],
                                    [discountStartDate |-> 5, discountEndDate |-> 15],
                                    more) :
                                  category \in {"A", "B"},
                                  more \in { <<>>, [discountPriority |-> 2] } } }

InitOffers ==
    /\ products = productsData
    /\ clock = 0
    /\ call \in { [op |-> "input", data |-> d, allProducts |-> c, excludeId |-> x] :
                     d \in OfferCandidates, c \in OfferCatalogs,
                     x \in {NullId, 1, 2} }
    /\ result = [ok |-> TRUE, error |-> "", value |-> <<>>]
    /\ batch = NoBatch
    /\ page = NoPage

validateOfferConflictsCall ==
    /\ call.op = "input"
    /\ Return([op |-> "validateOfferConflicts", data |-> call.data,
               allProducts |-> call.allProducts, excludeId |-> call.excludeId],
              Ok(products, validateOfferConflicts(call.data, call.allProducts,
                                                  call.excludeId)))

NextOffers == validateOfferConflictsCall

SpecOffers == InitOffers /\ [][NextOffers]_vars

\* the number of overlapping_dates conflicts a verdict reports against product id
OverlapCount(value, id) ==
    Cardinality({ k \in 1..Len(value.conflicts) :
                    /\ value.conflicts[k].type = "overlapping_dates"
                    /\ value.conflicts[k].productId = id })

FlagsOverlap(value) ==
    \E k \in 1..Len(value.conflicts) : value.conflicts[k].type = "overlapping_dates"

\* C15: conflict symmetry: for two products A and B, validateOfferConflicts(A,
\* [B], null) reports an overlapping_dates conflict if and only if
\* validateOfferConflicts(B, [A], null) does.
C15_ConflictSymmetry ==
    (/\ call.op = "validateOfferConflicts"
     /\ Len(call.allProducts) = 1
     /\ call.allProducts[1].id # call.data.id
     /\ call.excludeId = NullId)
    => (FlagsOverlap(result.value)
          <=> FlagsOverlap(validateOfferConflicts(call.allProducts[1],
                                                  <<call.data>>, NullId)))

C15_Witness ==
    /\ call.op = "validateOfferConflicts"
    /\ Len(call.allProducts) = 1
    /\ call.allProducts[1].id # call.data.id
    /\ call.excludeId = NullId
    /\ call.data.discountValue > 0
    /\ hasWindow(call.data)
    /\ call.data.discountEndDate = 10
    /\ Num(call.allProducts[1], "discountStartDate") = 10
    /\ FlagsOverlap(result.value)

\* C16: validateOfferConflicts reports one overlapping_dates conflict for a
\* catalog product P (and otherwise none) if and only if P is in the
\* candidate's category, P is not the excluded id, the candidate and P both
\* have discountValue > 0 and a start and an end date, and the windows
\* [s1,e1], [s2,e2] satisfy s1 <= e2 and s2 <= e1.
C16_OverlapExactly ==
    call.op = "validateOfferConflicts" =>
        \A k \in 1..Len(call.allProducts) :
            LET A == call.data
                P == call.allProducts[k]
                expected ==
                    /\ P.category = A.category
                    /\ P.id # call.excludeId
                    /\ Num(A, "discountValue") > 0 /\ Num(P, "discountValue") > 0
                    /\ Num(A, "discountStartDate") # 0 /\ Num(A, "discountEndDate") # 0
                    /\ Num(P, "discountStartDate") # 0 /\ Num(P, "discountEndDate") # 0
                    /\ A.discountStartDate <= P.discountEndDate
                    /\ P.discountStartDate <= A.discountEndDate
            IN  OverlapCount(result.value, P.id) = IF expected THEN 1 ELSE 0

C16_Witness ==
    /\ call.op = "validateOfferConflicts"
    /\ Len(call.allProducts) = 1
    /\ call.data.category = call.allProducts[1].category
    /\ Num(call.data, "discountStartDate") = 1 /\ Num(call.data, "discountEndDate") = 10
    /\ Num(call.allProducts[1], "discountStartDate") = 5
    /\ Num(call.allProducts[1], "discountEndDate") = 15
    /\ Len(result.value.conflicts) = 1
    /\ OverlapCount(result.value, call.allProducts[1].id) = 1

(***************************************************************************)
(* Bulk requests that carry a strategy, a value and a category only        *)
(***************************************************************************)
BareBulkRequests ==
    { [strategy |-> "percentage", value |-> 10, category |-> "all"],
      [strategy |-> "percentage", value |-> -10, category |-> "all"],
      [strategy |-> "percentage", value |-> 10, category |-> "A"],
      [strategy |-> "fixed", value |-> 500, category |-> "all"] }

bulkUpdatePricesBare ==
    /\ Idle
    /\ \E updateData \in BareBulkRequests :
          Return([op |-> "bulkUpdatePrices", data |-> updateData],
                 bulkUpdatePricesOutcome(products, updateData))

NextBulk ==
    \/ bulkUpdatePricesBare
    \/ update
    \/ delete

SpecBulk == Init /\ [][NextBulk]_vars

\* C17: a bulkUpdatePrices request that carries only strategy 'percentage', a
\* value v and category 'all' changes every product's price to
\* price * (1 + v/100) and reports updatedCount equal to the number of
\* products changed.
C17_BarePercentageRequestApplies ==
    [][(/\ call'.op = "bulkUpdatePrices"
        /\ DOMAIN call'.data = {"strategy", "value", "category"}
        /\ call'.data.strategy = "percentage"
        /\ call'.data.category = "all")
       => /\ result'.ok
          /\ Len(products') = Len(products)
          /\ \A i \in Positions :
                products'[i].price =
                    Round(products[i].price * (100 + call'.data.value), 100)
          /\ result'.value.updatedCount =
                Cardinality({ i \in Positions : products'[i] # products[i] })]_vars

(***************************************************************************)
(* getAll, getByBarcode                                                    *)
(***************************************************************************)
\* s.toLowerCase(), as the sequence of its characters, for the strings in use
toLowerCase(s) ==
    CASE s = ""    -> <<>>
      [] s = "P1"  -> <<"p", "1">>
      [] s = "P2"  -> <<"p", "2">>
      [] s = "N"   -> <<"n">>
      [] s = "A"   -> <<"a">>
      [] s = "B"   -> <<"b">>
      [] s = "S-1" -> <<"s", "-", "1">>
      [] s = "111" -> <<"1", "1", "1">>
      [] s = "p"   -> <<"p">>
      [] s = "1"   -> <<"1">>
      [] s = "a"   -> <<"a">>
      [] s = "P2x" -> <<"p", "2", "x">>

\* hay.includes(needle), on character sequences
includes(hay, needle) ==
    \E k \in 0..(Len(hay) - Len(needle)) : SubSeq(hay, k + 1, k + Len(needle)) = needle

\* the search filter of getAll
matchesSearch(product, searchParams) ==
    LET searchLower == toLowerCase(searchParams.search)
    IN  \E f \in {"name", "sku", "barcode", "category"} :
            NonEmpty(product, f) /\ includes(toLowerCase(product[f]), searchLower)

getAllOutcomeCustomerOnly(prods, userRole, searchParams) ==
    LET keep(product) == matchesSearch(product, searchParams)
        found == IF NonEmpty(searchParams, "search") THEN SelectSeq(prods, keep)
                 ELSE prods
    IN  IF userRole = "customer"
        THEN Ok(prods, [i \in 1..Len(found) |-> Omit(found[i], FinancialFields)])
        ELSE Ok(prods, found)

getAllOutcome(prods, userRole, searchParams) ==
    LET keep(product) == matchesSearch(product, searchParams)
        found == IF NonEmpty(searchParams, "search") THEN SelectSeq(prods, keep)
                 ELSE prods
    IN  IF userRole # "admin"
        THEN Ok(prods, [i \in 1..Len(found) |-> Omit(found[i], FinancialFields)])
        ELSE Ok(prods, found)

getByBarcodeOutcome(prods, barcode) ==
    LET hits == { i \in 1..Len(prods) :
                    /\ Has(prods[i], "barcode") /\ prods[i].barcode = barcode
                    /\ Has(prods[i], "isActive") /\ prods[i].isActive }
    IN  IF hits = {} THEN Throw(prods, "Product not found")
        ELSE Ok(prods, prods[CHOOSE i \in hits : \A j \in hits : i <= j])

ReadRoles == {"admin", "customer", "driver"}
SearchParams == { <<>>, [search |-> ""], [search |-> "p"], [search |-> "1"],
                  [search |-> "A"], [search |-> "P2x"] }
Barcodes == {"111", "S-1"}
BarcodedProducts ==
    { [name |-> "N", category |-> "B", price |-> 5000, purchasePrice |-> 4000,
       stock |-> 1, barcode |-> "111", sku |-> "S-1"] }

getAll ==
    /\ Idle
    /\ \E userRole \in ReadRoles, searchParams \in SearchParams :
          Return([op |-> "getAll", role |-> userRole, searchParams |-> searchParams],
                 getAllOutcome(products, userRole, searchParams))

getByIdAs ==
    /\ Idle
    /\ \E id \in Ids, userRole \in ReadRoles :
          Return([op |-> "getById", id |-> id, role |-> userRole],
                 getByIdOutcome(products, id, userRole))

getByBarcode ==
    /\ Idle
    /\ \E barcode \in Barcodes :
          Return([op |-> "getByBarcode", barcode |-> barcode],
                 getByBarcodeOutcome(products, barcode))

createBarcoded ==
    /\ Idle
    /\ \E productData \in BarcodedProducts :
          Return([op |-> "create", data |-> productData],
                 createOutcome(products, productData))

NextReads ==
    \/ getAll
    \/ getByIdAs
    \/ getByBarcode
    \/ getPriceHistory
    \/ createBarcoded
    \/ update

SpecReads == Init /\ [][NextReads]_vars

\* a catalog that differs from prods in the three financial fields only
VaryFinancials(prods, mode) ==
    [i \in 1..Len(prods) |->
        IF mode = "absent" THEN Omit(prods[i], FinancialFields)
        ELSE Spread(prods[i], [purchasePrice |-> 100 + i, minSellingPrice |-> 200 + i,
                               profitMargin |-> 300 + i])]

ReadValue(prods, c) ==
    IF c.op = "getAll" THEN getAllOutcome(prods, c.role, c.searchParams).value
    ELSE getByIdOutcome(prods, c.id, c.role).value

Records(c, value) == IF c.op = "getAll" THEN {value[k] : k \in 1..Len(value)} ELSE {value}

\* C18: for a caller role other than 'admin' the records returned by getById
\* and getAll contain none of purchasePrice, minSellingPrice and profitMargin,
\* and catalogs that differ only in those fields give the same result; an
\* admin caller receives the stored records with those fields.
C18_FinancialsOnlyForAdmin ==
    (call.op \in {"getAll", "getById"} /\ result.ok) =>
        IF call.role # "admin"
        THEN /\ \A r \in Records(call, result.value) : DOMAIN r \cap FinancialFields = {}
             /\ \A mode \in {"absent", "other"} :
                    ReadValue(VaryFinancials(products, mode), call) = result.value
        ELSE \A r \in Records(call, result.value) :
                \E i \in Positions :
                    /\ r = products[i]
                    /\ FinancialFields \cap DOMAIN products[i] \subseteq DOMAIN r

C18_Witness ==
    /\ call.op = "getAll"
    /\ call.role = "driver"
    /\ Len(result.value) = 2
    /\ \E i \in Positions : Num(products[i], "purchasePrice") > 0
    /\ ReadValue(products, [call EXCEPT !.role = "admin"]) # result.value

\* the entries appended to the product's history by price changes
Recorded(prods, id) ==
    LET index == findIndex(prods, id)
    IN  {History(prods[index])[k] : k \in 1..Len(History(prods[index]))}

\* C19: getPriceHistory(productId) returns an empty sequence whenever the
\* product has no recorded history entries, and never returns an entry that
\* was not appended by a price change.
C19_HistoryIsRecordedOnly ==
    [][(call'.op = "getPriceHistory" /\ result'.ok) =>
          /\ History(products[findIndex(products, call'.id)]) = <<>>
                => result'.value = <<>>
          /\ \A k \in 1..Len(result'.value) :
                result'.value[k] \in Recorded(products, call'.id)]_vars

ReadOps == {"getAll", "getById", "getByBarcode", "getPriceHistory"}

\* C20: read operations are side-effect-free: getAll, getById, getByBarcode
\* and getPriceHistory leave the catalog unchanged, including the stored order
\* of every product's priceHistory (insertion order, oldest first).
C20_ReadsLeaveCatalogUnchanged ==
    [][call'.op \in ReadOps => products' = products]_vars

(***************************************************************************)
(* bulkUpdatePrices: requests of the pricing tab and of the discounts tab, *)
(* with filters and conflict policies                                      *)
(***************************************************************************)
PricingRequests ==
    { [activeTab |-> "pricing", strategy |-> "percentage", value |-> 10, category |-> "all"],
      [activeTab |-> "pricing", strategy |-> "percentage", value |-> -50, category |-> "B"],
      [activeTab |-> "pricing", strategy |-> "percentage", value |-> 10, category |-> "all",
       maxPrice |-> 10500],
      [activeTab |-> "pricing", strategy |-> "fixed", value |-> 500, category |-> "A"],
      [activeTab |-> "pricing", strategy |-> "fixed", value |-> 1, category |-> "all"],
      [activeTab |-> "pricing", strategy |-> "fixed", value |-> -500, category |-> "all",
       applyToLowStock |-> TRUE, stockThreshold |-> 10],
      [activeTab |-> "pricing", strategy |-> "range", minPrice |-> 5000, maxPrice |-> 8000,
       category |-> "all"],
      [activeTab |-> "pricing", strategy |-> "range", minPrice |-> 5000, maxPrice |-> 15000,
       category |-> "all"] }

Discount(policy, type, value, category) ==
    [activeTab |-> "discounts", categoryDiscount |-> TRUE, strategy |-> "percentage",
     value |-> 1, category |-> category, discountType |-> type,
     discountValue |-> value, conflictResolution |-> policy]

DiscountRequests ==
    { Discount("skip", "percentage", 20, "all"),
      Discount("skip", "percentage", 20, "B"),
      Discount("override", "percentage", 5, "all"),
      Discount("merge", "percentage", 5, "all"),
      Discount("merge", "percentage", 20, "all"),
      Discount("merge", "fixed", 1000, "all"),
      Discount("merge", "fixed", 5000, "B") }

bulkUpdatePricesPricing ==
    /\ Idle
    /\ \E updateData \in PricingRequests :
          Return([op |-> "bulkUpdatePrices", data |-> updateData],
                 bulkUpdatePricesOutcome(products, updateData))

bulkUpdatePricesDiscounts ==
    /\ Idle
    /\ \E updateData \in DiscountRequests :
          Return([op |-> "bulkUpdatePrices", data |-> updateData],
                 bulkUpdatePricesOutcome(products, updateData))

NextTabs ==
    \/ bulkUpdatePricesPricing
    \/ bulkUpdatePricesDiscounts

SpecTabs == Init /\ [][NextTabs]_vars

\* the request of the step taken is a bulk request of the given tab
BulkStep(tab) ==
    /\ call'.op = "bulkUpdatePrices"
    /\ result'.ok
    /\ call'.data.activeTab = tab

\* the product at position i passes the filter of the request
Selected(updateData, i) ==
    /\ updateData.category # "all" => products[i].category = updateData.category
    /\ (Has(updateData, "applyToLowStock") /\ updateData.applyToLowStock)
          => products[i].stock <= updateData.stockThreshold

\* the price the strategy asks for, in hundredths of a cent
AskedPrice(updateData, price) ==
    CASE updateData.strategy = "percentage" -> price * (100 + updateData.value)
      [] updateData.strategy = "fixed"      -> (price + updateData.value) * 100
      [] updateData.strategy = "range"      ->
            (IF price < updateData.minPrice THEN updateData.minPrice
             ELSE IF price > updateData.maxPrice THEN updateData.maxPrice
             ELSE price) * 100

\* C21: for a pricing-tab bulkUpdatePrices request the price computed for
\* each filtered product before the guard clamp is price * (1 + value/100) for
\* strategy 'percentage', price + value for 'fixed' and clamp(price, minPrice,
\* maxPrice) for 'range': the stored price of every product the call changes
\* is that price after the guards, and a product it leaves alone is one whose
\* guarded price is within 0.01 of the old one.
C21_StrategyPrice ==
    [][BulkStep("pricing") =>
          \A i \in Positions :
              Selected(call'.data, i) =>
                  LET guarded == rangeGuard(requestGuard(call'.data,
                                     AskedPrice(call'.data, products[i].price)))
                  IN  IF products'[i] # products[i]
                      THEN products'[i].price = Round(guarded, 100)
                      ELSE Abs(guarded - products[i].price * 100) <= 100]_vars

C21_Witness ==
    /\ call.op = "bulkUpdatePrices"
    /\ call.data.strategy = "range"
    /\ call.data.minPrice = 5000 /\ call.data.maxPrice = 8000
    /\ Has(products[1], "previousPrice") /\ products[1].previousPrice = 10000
    /\ products[1].price = 8000

\* the positions the request selects, and those the call changed
SelectedSet(updateData) == { i \in Positions : Selected(updateData, i) }
Changed == { i \in Positions : products'[i] # products[i] }

\* C22: bulkUpdatePrices changes only products selected by its filter: a
\* product of another category than the request's (when that is not 'all'), or
\* whose stock exceeds stockThreshold when applyToLowStock is set, is left
\* completely unchanged, and totalFiltered is the number of products that pass
\* the filter.
C22_OnlyFilteredChange ==
    [][(call'.op = "bulkUpdatePrices" /\ result'.ok) =>
          /\ Len(products') = Len(products)
          /\ Changed \subseteq SelectedSet(call'.data)
          /\ result'.value.totalFiltered = Cardinality(SelectedSet(call'.data))]_vars

C22_Witness ==
    /\ call.op = "bulkUpdatePrices"
    /\ Has(call.data, "applyToLowStock")
    /\ result.value.totalFiltered = 1
    /\ result.value.updatedCount = 1
    /\ products[1].price = 9500
    /\ products[2] = productsData[2]

\* C23: bulkUpdatePrices writes a record back and counts it in updatedCount if
\* and only if the record was not skipped by the conflict policy and
\* |newPrice - originalPrice| > 0.01; updatedCount is the number of products
\* whose stored record differs after the call.
C23_WritesExactlyRealChanges ==
    [][(call'.op = "bulkUpdatePrices" /\ result'.ok) =>
          /\ \A i \in SelectedSet(call'.data) :
                i \in Changed <=>
                    /\ shouldUpdate(call'.data, products[i])
                    /\ Abs(newPriceOf(call'.data, products[i])
                             - products[i].price * 100) > 100
          /\ result'.value.updatedCount = Cardinality(Changed)]_vars

C23_Witness ==
    /\ call.op = "bulkUpdatePrices"
    /\ call.data.strategy = "fixed" /\ call.data.value = 1
    /\ result.value.totalFiltered = 2
    /\ result.value.updatedCount = 0
    /\ products = productsData

C25_MergeKeepsLargerReduction ==
    [][(BulkStep("discounts") /\ call'.data.conflictResolution = "merge") =>
          \A i \in SelectedSet(call'.data) :
              Num(products[i], "discountValue") > 0 =>
                  LET price == products[i].price
                      \* reductions in hundredths of a cent
                      newReduction ==
                          IF call'.data.discountType = "percentage"
                          THEN price * call'.data.discountValue
                          ELSE call'.data.discountValue * 100
                      oldReduction ==
                          IF products[i].discountType \in {"Percentage", "percentage"}
                          THEN price * products[i].discountValue
                          ELSE products[i].discountValue * 100
                  IN  newReduction <= oldReduction => products'[i] = products[i]]_vars

(***************************************************************************)
(* validateBulkPriceUpdate on its own                                      *)
(***************************************************************************)
ValidationRequests ==
    { Spread(Spread(Spread(strategy, value), minPrice), maxPrice) :
          strategy \in { <<>>, [strategy |-> "percentage"], [strategy |-> "fixed"],
                         [strategy |-> "range"] },
          value \in { <<>>, [value |-> 0], [value |-> -10], [value |-> 10],
                      [value |-> NotANumber] },
          minPrice \in { <<>>, [minPrice |-> 0], [minPrice |-> 5000],
                         [minPrice |-> 8000] },
          maxPrice \in { <<>>, [maxPrice |-> 5000], [maxPrice |-> 8000] } }

InitValidation ==
    /\ products = productsData
    /\ clock = 0
    /\ call \in { [op |-> "input", data |-> d] : d \in ValidationRequests }
    /\ result = [ok |-> TRUE, error |-> "", value |-> <<>>]
    /\ batch = NoBatch
    /\ page = NoPage

validateBulkPriceUpdateCall ==
    /\ call.op = "input"
    /\ Return([op |-> "validateBulkPriceUpdate", data |-> call.data],
              Ok(products, validateBulkPriceUpdate(call.data)))

NextValidation == validateBulkPriceUpdateCall

SpecValidation == InitValidation /\ [][NextValidation]_vars

\* C26: bulk request validation accepts a request exactly when: for strategy
\* 'range', minPrice and maxPrice are present and minPrice < maxPrice; for
\* strategy 'percentage' or 'fixed', value is present and numeric.  Every
\* numeric value, 0 and negative numbers included, is accepted for
\* 'percentage' and 'fixed'.
C26_ValidationExact ==
    (call.op = "validateBulkPriceUpdate" /\ Has(call.data, "strategy")) =>
        (result.value.isValid <=>
            IF call.data.strategy = "range"
            THEN /\ Has(call.data, "minPrice") /\ Has(call.data, "maxPrice")
                 /\ call.data.minPrice < call.data.maxPrice
            ELSE Has(call.data, "value") /\ call.data.value # NotANumber)

PriorityWarned(value) ==
    \E k \in 1..Len(value.warnings) : value.warnings[k].warning = "same_priority"

\* the catalog snapshot without the records of the given id
Without(allProducts, id) ==
    LET other(p) == p.id # id IN SelectSeq(allProducts, other)

\* C27: validateOfferConflicts emits the priority-collision warning only when
\* both the candidate and another product of the same category with the same
\* discountPriority are discounted (discountValue > 0); a candidate without a
\* discount never triggers it, and the warning never makes the result invalid.
C27_PriorityWarningNeedsBothDiscounted ==
    call.op = "validateOfferConflicts" =>
        /\ PriorityWarned(result.value) =>
              /\ Num(call.data, "discountValue") > 0
              /\ \E k \in 1..Len(call.allProducts) :
                    /\ call.allProducts[k].id # call.data.id
                    /\ call.allProducts[k].category = call.data.category
                    /\ Num(call.allProducts[k], "discountValue") > 0
        /\ result.value.isValid <=> result.value.conflicts = <<>>

\* C28: validateOfferConflicts excludes the candidate from the scan: when the
\* catalog snapshot contains the candidate product itself, no
\* overlapping_dates conflict and no priority warning is reported against the
\* candidate's own record, also when excludeId is omitted or null.
C28_CandidateExcludedFromScan ==
    call.op = "validateOfferConflicts" =>
        /\ OverlapCount(result.value, call.data.id) = 0
        /\ result.value = validateOfferConflicts(call.data,
                              Without(call.allProducts, call.data.id), call.excludeId)

\* the discount conflicts of a verdict
DiscountConflicts(value) ==
    { k \in 1..Len(value.conflicts) :
        value.conflicts[k].type \in {"excessive_discount", "invalid_discount",
                                     "low_profit_margin"} }

\* C29: the two validators agree on the discount rules: for product data with
\* discountValue > 0 that validateProfitRules accepts, validateOfferConflicts
\* against an empty catalog snapshot reports no excessive_discount,
\* invalid_discount or low_profit_margin conflict; and whenever it reports one
\* of these, validateProfitRules rejects the same data.
C29_ValidatorsAgree ==
    call.op = "validateProfitRules" =>
        LET offers == validateOfferConflicts(call.data, <<>>, NullId)
        IN  /\ (Num(call.data, "discountValue") > 0 /\ result.value.isValid)
                  => DiscountConflicts(offers) = {}
            /\ DiscountConflicts(offers) # {} => ~result.value.isValid

C29_Witness ==
    /\ call.op = "validateProfitRules"
    /\ call.data = [price |-> 12500, purchasePrice |-> 10000,
                    discountType |-> "Percentage", discountValue |-> 17]
    /\ ~result.value.isValid
    /\ DiscountConflicts(validateOfferConflicts(call.data, <<>>, NullId)) # {}

(***************************************************************************)
(* The BulkPriceManager page: loadProducts, generateBulkPreview and        *)
(* applyBulkUpdate.  The page's filters keep their initial values, so      *)
(* filteredProducts is the page's products; the toasts are left out.       *)
(***************************************************************************)
\* the form: bulkUpdateStrategy, bulkUpdateValue ('' when absent),
\* bulkMinPrice, bulkMaxPrice and the selectedProducts
PreviewForms ==
    { [strategy |-> "percentage", value |-> 10, selected |-> {}],
      [strategy |-> "percentage", value |-> -50, selected |-> {1}],
      [strategy |-> "fixed", value |-> 500, selected |-> {2}],
      [strategy |-> "range", minPrice |-> 5000, maxPrice |-> 8000, selected |-> {}],
      [strategy |-> "range", minPrice |-> 8000, maxPrice |-> 5000, selected |-> {}],
      [strategy |-> "percentage", selected |-> {}],
      [strategy |-> "percentage", value |-> 10, selected |-> {3}] }

\* lines 637-663: one row of the preview
previewOf(product, form) ==
    LET asked == IF form.strategy = "percentage"
                 THEN product.price * (100 + Num(form, "value"))
                 ELSE IF form.strategy = "fixed"
                 THEN (product.price + Num(form, "value")) * 100
                 ELSE IF form.strategy = "range"
                 THEN LET minPrice == Num(form, "minPrice")
                          maxPrice == IF Truthy(form, "maxPrice")
                                      THEN form.maxPrice ELSE product.price
                      IN  Min(Max(product.price, minPrice), maxPrice) * 100
                 ELSE product.price * 100
        newPrice == Round(rangeGuard(asked), 100)
    IN  Spread(product, [newPrice |-> newPrice, priceChange |-> newPrice - product.price])

\* lines 605-667: the bulkPreview the handler sets; the one it had when it
\* returns early
generateBulkPreviewOutcome(pageProducts, bulkPreview, form) ==
    LET chosen(p) == p.id \in form.selected
        targetProducts == IF form.selected # {} THEN SelectSeq(pageProducts, chosen)
                          ELSE pageProducts
    IN  IF ~Has(form, "value") /\ form.strategy # "range" THEN bulkPreview
        ELSE IF form.strategy = "range"
                /\ (~Has(form, "minPrice") \/ ~Has(form, "maxPrice"))
        THEN bulkPreview
        ELSE IF form.strategy = "range" /\ form.minPrice >= form.maxPrice
        THEN bulkPreview
        ELSE IF targetProducts = <<>> THEN bulkPreview
        ELSE [k \in 1..Len(targetProducts) |-> previewOf(targetProducts[k], form)]

\* lines 685-693: the update calls of applyBulkUpdate, from the k-th row on
RECURSIVE applyLoop(_, _, _, _)
applyLoop(acc, bulkPreview, k, now) ==
    IF k > Len(bulkPreview) THEN acc
    ELSE LET product == bulkPreview[k]
             out == updateOutcome(acc.products, product.id,
                                  [price |-> product.newPrice], now)
         IN  applyLoop(IF out.ok
                       THEN [acc EXCEPT !.products = out.products,
                                        !.successCount = @ + 1]
                       ELSE [acc EXCEPT !.errors =
                                Append(@, [productId |-> product.id,
                                           error |-> out.error])],
                       bulkPreview, k + 1, now)

\* lines 696-699: the page's products after the loop
localAfterApply(pageProducts, bulkPreview) ==
    [i \in 1..Len(pageProducts) |->
        LET hits == { k \in 1..Len(bulkPreview) : bulkPreview[k].id = pageProducts[i].id }
        IN  IF hits = {} THEN pageProducts[i]
            ELSE Spread(pageProducts[i],
                        [price |-> bulkPreview[CHOOSE k \in hits :
                                                  \A j \in hits : k <= j].newPrice])]

\* lines 448-462
loadProducts ==
    /\ Idle
    /\ LET out == getAllOutcome(products, "admin", <<>>)
       IN  /\ page' = [page EXCEPT !.products = out.value]
           /\ call' = [op |-> "loadProducts"]
           /\ result' = [ok |-> out.ok, error |-> out.error, value |-> out.value]
    /\ clock' = clock + 1
    /\ UNCHANGED <<products, batch>>

\* lines 605-667; the handler calls no service
generateBulkPreview ==
    /\ batch.pc = "idle"
    /\ \E form \in PreviewForms :
          /\ page' = [page EXCEPT !.bulkPreview =
                        generateBulkPreviewOutcome(page.products, page.bulkPreview, form)]
          /\ call' = [op |-> "generateBulkPreview", data |-> form]
    /\ result' = [ok |-> TRUE, error |-> "", value |-> <<>>]
    /\ UNCHANGED <<products, clock, batch>>

\* lines 670-716, after window.confirm was answered
applyBulkUpdate ==
    /\ Idle
    /\ page.bulkPreview # <<>>
    /\ \E confirmed \in BOOLEAN :
          IF ~confirmed
          THEN /\ call' = [op |-> "applyBulkUpdate", confirmed |-> FALSE]
               /\ result' = [ok |-> TRUE, error |-> "", value |-> <<>>]
               /\ UNCHANGED <<products, page>>
          ELSE LET done == applyLoop([products |-> products, successCount |-> 0,
                                      errors |-> <<>>],
                                     page.bulkPreview, 1, clock + 1)
               IN  /\ products' = done.products
                   /\ page' = [products |-> localAfterApply(page.products,
                                                            page.bulkPreview),
                               bulkPreview |-> <<>>]
                   /\ call' = [op |-> "applyBulkUpdate", confirmed |-> TRUE,
                               bulkPreview |-> page.bulkPreview]
                   /\ result' = [ok |-> TRUE, error |-> "",
                                 value |-> [successCount |-> done.successCount,
                                            errors |-> done.errors]]
    /\ clock' = clock + 1
    /\ UNCHANGED batch

NextPage ==
    \/ loadProducts
    \/ generateBulkPreview
    \/ applyBulkUpdate
    \/ delete

SpecPage == Init /\ [][NextPage]_vars

\* C30: after BulkPriceManager.applyBulkUpdate finishes, the page's local
\* price of every previewed product equals the price stored in the service
\* catalog for that product, also when some of the per-product update calls
\* failed and were only collected into the errors list.
C30_LocalPricesMatchCatalog ==
    [][(call'.op = "applyBulkUpdate" /\ call'.confirmed) =>
          \A k \in 1..Len(call'.bulkPreview) :
              \A i \in 1..Len(page'.products) :
                  page'.products[i].id = call'.bulkPreview[k].id =>
                      \E j \in 1..Len(products') :
                          /\ products'[j].id = page'.products[i].id
                          /\ products'[j].price = page'.products[i].price]_vars

====
